---- MODULE Spec2Model ----
(***************************************************************************)
(* Model of main.go: numMsgs producer goroutines each send one offset on   *)
(* the buffered channel commitChan; one aggregator goroutine ranges over   *)
(* the channel and keeps the set commits and the atomic watermark          *)
(* committed; the main goroutine polls committed on a ticker and returns   *)
(* (ending the process) once it reads numMsgs-1.                           *)
(***************************************************************************)
EXTENDS Integers, Sequences, FiniteSets, TLC

\* main.go:29 sets numMsgs to 1000000; the model runs it scaled down.
numMsgs == 5

\* number of producers in the runs that feed the aggregator arbitrary offsets
NumAny == 3

VARIABLES
    offs,        \* producer -> the offset argument its goroutine was started with
    ppc,         \* producer -> "wait" | "send" | "done"
    commitChan,  \* the buffered channel: FIFO of offsets in flight
    mpc,         \* main goroutine: "wake" | "poll" | "finished"
    seen,        \* the value main's last atomic load returned (-1 before any load)
    committed,   \* the atomic watermark
    commits,     \* the aggregator's map, as the set of its keys
    apc,         \* aggregator: "recv" | "insert" | "load" | "loop"
    val,         \* aggregator local: the offset received
    c,           \* aggregator local
    next,        \* aggregator local
    ok,          \* aggregator local
    order,       \* history: the offsets in the order the aggregator received them
    wseq,        \* history: the value stored at the end of each commit step
    pre,         \* history: commits as it was when the current commit step began
    removed      \* history: the offsets deleted from commits, in order

vars == <<offs, ppc, commitChan, mpc, seen, committed, commits, apc, val, c,
          next, ok, order, wseq, pre, removed>>

prodVars == <<offs, ppc, commitChan>>
aggVars == <<committed, commits, apc, val, c, next, ok, order, wseq, pre, removed>>
monVars == <<mpc, seen>>

Producers == DOMAIN offs

Range(s) == {s[i] : i \in DOMAIN s}

\* the offsets whose producer has completed its send
Submitted == {offs[p] : p \in {q \in Producers : ppc[q] = "done"}}

NumSubmitted == Cardinality({q \in Producers : ppc[q] = "done"})

\* the reference watermark of a set R of offsets: the largest W with 0..W all
\* in R, or -1 when 0 is not in R
maxPrefix(R) ==
    CHOOSE w \in (-1)..Cardinality(R) : (\A v \in 0..w : v \in R) /\ (w + 1) \notin R

\* the process lives until main returns
Running == mpc # "finished"

----
\* State after the goroutines are created (lines 40-48, 52-56): every producer
\* is parked on waitStart, the aggregator waits on the empty channel.
InitCommon ==
    /\ ppc = [p \in DOMAIN offs |-> "wait"]
    /\ commitChan = <<>>
    /\ mpc = "wake"
    /\ seen = -1
    /\ committed = -1
    /\ commits = {}
    /\ apc = "recv"
    /\ val = 0 /\ c = 0 /\ next = 0 /\ ok = FALSE
    /\ order = <<>>
    /\ wseq = <<>>
    /\ pre = {}
    /\ removed = <<>>

\* Init as it would be with  i <= numMsgs  in the loop at line 40.
InitOneMore ==
    /\ offs = [i \in 0..numMsgs |-> i]
    /\ InitCommon

Init ==
    /\ offs = [i \in 0..(numMsgs - 1) |-> i]
    /\ InitCommon

\* The same program driven with one extra producer that repeats an offset.
InitDup ==
    /\ \E d \in 0..(numMsgs - 1) :
          offs = [i \in 0..numMsgs |-> IF i < numMsgs THEN i ELSE d]
    /\ InitCommon

\* The same program driven with one producer fewer: one offset of
\* 0..numMsgs-1 is never submitted.
InitMiss ==
    /\ \E m \in 0..(numMsgs - 1) :
          offs = [i \in 0..(numMsgs - 2) |-> IF i < m THEN i ELSE i + 1]
    /\ InitCommon

\* The same program driven with one extra producer that holds an offset
\* outside 0..numMsgs-1: negative, the first one beyond, or one further.
InitOut ==
    /\ \E x \in {-1, numMsgs, numMsgs + 1} :
          offs = [i \in 0..numMsgs |-> IF i < numMsgs THEN i ELSE x]
    /\ InitCommon

\* The same program driven by NumAny producers holding arbitrary offsets:
\* repeated, missing, negative or beyond numMsgs-1.  Producers are
\* interchangeable, so only the non-decreasing assignments are started from.
InitAny ==
    /\ offs \in [0..(NumAny - 1) -> (-1)..numMsgs]
    /\ \A i \in 1..(NumAny - 1) : offs[i - 1] <= offs[i]
    /\ InitCommon

----
\* main: waitStart.Done() releases every producer, then the ticker starts
MainWake ==
    /\ mpc = "wake"
    /\ mpc' = "poll"
    /\ UNCHANGED <<seen, prodVars, aggVars>>

\* producer: waitStart.Wait() returns and the random sleep elapses
Wake(p) ==
    /\ Running
    /\ mpc # "wake"
    /\ ppc[p] = "wait"
    /\ ppc' = [ppc EXCEPT ![p] = "send"]
    /\ UNCHANGED <<offs, commitChan, monVars, aggVars>>

\* Send as it would be if each goroutine committed to the set directly (the
\* design the comment at lines 31-33 rejects).
SendDirect(p) ==
    /\ Running
    /\ ppc[p] = "send"
    /\ Len(commitChan) < numMsgs
    /\ commitChan' = Append(commitChan, offs[p])
    /\ commits' = commits \cup {offs[p]}
    /\ ppc' = [ppc EXCEPT ![p] = "done"]
    /\ UNCHANGED <<offs, monVars, committed, apc, val, c, next, ok, order, wseq,
                   pre, removed>>

\* Send as it would be if the goroutine did not return after its send.
SendAgain(p) ==
    /\ Running
    /\ ppc[p] = "send"
    /\ Len(commitChan) < numMsgs
    /\ commitChan' = Append(commitChan, offs[p])
    /\ UNCHANGED <<offs, ppc, monVars, aggVars>>

\* producer: commitChan <- offset (blocks while the buffer is full)
Send(p) ==
    /\ Running
    /\ ppc[p] = "send"
    /\ Len(commitChan) < numMsgs
    /\ commitChan' = Append(commitChan, offs[p])
    /\ ppc' = [ppc EXCEPT ![p] = "done"]
    /\ UNCHANGED <<offs, monVars, aggVars>>

\* aggregator: for val := range commitChan
Recv ==
    /\ Running
    /\ apc = "recv"
    /\ commitChan # <<>>
    /\ val' = Head(commitChan)
    /\ commitChan' = Tail(commitChan)
    /\ order' = Append(order, Head(commitChan))
    /\ pre' = commits
    /\ apc' = "insert"
    /\ UNCHANGED <<offs, ppc, monVars, committed, commits, c, next, ok, wseq, removed>>

\* aggregator: commits[val] = struct{}{}
Insert ==
    /\ Running
    /\ apc = "insert"
    /\ commits' = commits \cup {val}
    /\ apc' = "load"
    /\ UNCHANGED <<prodVars, monVars, committed, val, c, next, ok, order, wseq,
                   pre, removed>>

\* Load as it would be if the scan restarted from -1 instead of the watermark.
LoadFromStart ==
    /\ Running
    /\ apc = "load"
    /\ c' = -1
    /\ next' = 0
    /\ ok' = (0 \in commits)
    /\ apc' = "loop"
    /\ UNCHANGED <<prodVars, monVars, committed, commits, val, order, wseq,
                   pre, removed>>

\* aggregator: c := atomic.LoadInt64(&committed); next := c + 1; _, ok := commits[next]
Load ==
    /\ Running
    /\ apc = "load"
    /\ c' = committed
    /\ next' = committed + 1
    /\ ok' = ((committed + 1) \in commits)
    /\ apc' = "loop"
    /\ UNCHANGED <<prodVars, monVars, committed, commits, val, order, wseq,
                   pre, removed>>

\* Loop as it would be with  if ok  in place of  for ok : one offset per step.
LoopOnce ==
    /\ Running
    /\ apc = "loop"
    /\ ok
    /\ c' = next
    /\ commits' = commits \ {next}
    /\ removed' = IF next \in commits THEN Append(removed, next) ELSE removed
    /\ next' = next + 1
    /\ ok' = FALSE
    /\ UNCHANGED <<prodVars, monVars, committed, apc, val, order, wseq, pre>>

\* Loop as it would be without the delete at line 71.
LoopNoDelete ==
    /\ Running
    /\ apc = "loop"
    /\ ok
    /\ c' = next
    /\ next' = next + 1
    /\ ok' = ((next + 1) \in commits)
    /\ UNCHANGED <<prodVars, monVars, committed, commits, apc, val, order, wseq,
                   pre, removed>>

\* aggregator: one iteration of  for ok { ... }
Loop ==
    /\ Running
    /\ apc = "loop"
    /\ ok
    /\ c' = next
    /\ commits' = commits \ {next}
    /\ removed' = IF next \in commits THEN Append(removed, next) ELSE removed
    /\ next' = next + 1
    /\ ok' = ((next + 1) \in (commits \ {next}))
    /\ UNCHANGED <<prodVars, monVars, committed, apc, val, order, wseq, pre>>

\* Store as it would be if it published next instead of c.
StoreNext ==
    /\ Running
    /\ apc = "loop"
    /\ ~ok
    /\ committed' = next
    /\ wseq' = Append(wseq, next)
    /\ apc' = "recv"
    /\ val' = 0 /\ c' = 0 /\ next' = 0 /\ ok' = FALSE
    /\ UNCHANGED <<prodVars, monVars, commits, order, pre, removed>>

\* aggregator: the loop exits, atomic.StoreInt64(&committed, c), back to range
Store ==
    /\ Running
    /\ apc = "loop"
    /\ ~ok
    /\ committed' = c
    /\ wseq' = Append(wseq, c)
    /\ apc' = "recv"
    /\ val' = 0 /\ c' = 0 /\ next' = 0 /\ ok' = FALSE
    /\ UNCHANGED <<prodVars, monVars, commits, order, pre, removed>>

\* Tick as it would be if it reported the count of committed offsets.
TickCount ==
    /\ mpc = "poll"
    /\ seen' = committed + 1
    /\ mpc' = IF committed + 1 < numMsgs - 1 THEN "poll" ELSE "finished"
    /\ UNCHANGED <<prodVars, aggVars>>

\* main: one tick of the ticker loop
Tick ==
    /\ mpc = "poll"
    /\ seen' = committed
    /\ mpc' = IF committed < numMsgs - 1 THEN "poll" ELSE "finished"
    /\ UNCHANGED <<prodVars, aggVars>>

Next ==
    \/ MainWake
    \/ \E p \in Producers : Wake(p)
    \/ \E p \in Producers : Send(p)
    \/ Recv
    \/ Insert
    \/ Load
    \/ Loop
    \/ Store
    \/ Tick

Spec == Init /\ [][Next]_vars

SpecDup == InitDup /\ [][Next]_vars

SpecAny == InitAny /\ [][Next]_vars

\* The Go scheduler runs every runnable goroutine eventually and the ticker
\* keeps firing: weak fairness for each goroutine's next step.
Fairness(n) ==
    /\ WF_vars(MainWake \/ Tick)
    /\ WF_vars(Recv \/ Insert \/ Load \/ Loop \/ Store)
    /\ \A p \in 0..(n - 1) : WF_vars(Wake(p) \/ Send(p))

SpecMiss == InitMiss /\ [][Next]_vars

SpecOut == InitOut /\ [][Next]_vars

FairSpec == Init /\ [][Next]_vars /\ Fairness(numMsgs)

FairMiss == InitMiss /\ [][Next]_vars /\ Fairness(numMsgs - 1)

----
\* the watermark in force before any commit step has stored
LastStored == IF wseq = <<>> THEN -1 ELSE wseq[Len(wseq)]

\* the offsets received up to and including the i-th
ReceivedUpTo(i) == {order[j] : j \in 1..i}

\* C1 (completeness): when the offsets 0..numMsgs-1 are each submitted once,
\* in every interleaving, once the aggregator has completed all numMsgs commit
\* steps the published watermark is numMsgs-1, in that state and every later one.
C1_Completeness ==
    Len(wseq) = numMsgs => committed = numMsgs - 1

C1_Witness ==
    /\ Len(wseq) = numMsgs
    /\ committed = numMsgs - 1
    /\ order[1] = numMsgs - 1
    /\ order[numMsgs] = 0
    /\ seen < committed

\* C2 (no over-commit): in every reachable state every offset in 0..committed
\* has been sent on the channel by its producer and received by the aggregator.
C2_NoOverCommit ==
    \A v \in 0..committed : v \in Submitted /\ v \in Range(order)

C2_Witness ==
    /\ committed >= 1
    /\ (committed + 2) \in commits
    /\ (committed + 1) \notin Submitted

\* C3 (monotonicity): for any offsets in any order, the value stored at the
\* end of each commit step is at least the value stored by the step before it
\* (-1 before the first), and committed is always the last value stored.
C3_Monotonic ==
    /\ \A i \in 1..Len(wseq) : wseq[i] >= (IF i = 1 THEN -1 ELSE wseq[i - 1])
    /\ committed = LastStored

C3_Witness ==
    /\ order = <<0, 0, 1>>
    /\ wseq = <<0, 0, 1>>

\* C4 as stated: the value stored by the i-th commit step is maxPrefix of the
\* set of the first i offsets received, arrival order 2,0,1,4,3 gives the
\* stored values -1,0,1,1,4 and arrival order 0,1,2 gives 0,1,2.
C4_Original ==
    /\ \A i \in 1..Len(wseq) : wseq[i] = maxPrefix(ReceivedUpTo(i))
    /\ apc = "recv" => committed = maxPrefix(Range(order))
    /\ (Len(wseq) = 5 /\ order = <<2, 0, 1, 4, 3>>) => wseq = <<-1, 0, 1, 1, 4>>
    /\ (Len(wseq) >= 3 /\ SubSeq(order, 1, 3) = <<0, 1, 2>>)
          => SubSeq(wseq, 1, 3) = <<0, 1, 2>>

\* C4 (reference value, amended): the value stored by the i-th commit step is
\* maxPrefix of the set of the first i offsets received, so between commit
\* steps committed = maxPrefix(received) whatever the arrival order; arrival
\* order 2,0,1,4,3 gives -1,0,2,2,4 (receiving 1 absorbs 1 and the pending 2)
\* and arrival order 0,1,2 gives 0,1,2.
C4_MaxPrefix ==
    /\ \A i \in 1..Len(wseq) : wseq[i] = maxPrefix(ReceivedUpTo(i))
    /\ apc = "recv" => committed = maxPrefix(Range(order))
    /\ (Len(wseq) = 5 /\ order = <<2, 0, 1, 4, 3>>) => wseq = <<-1, 0, 2, 2, 4>>
    /\ (Len(wseq) >= 3 /\ SubSeq(order, 1, 3) = <<0, 1, 2>>)
          => SubSeq(wseq, 1, 3) = <<0, 1, 2>>

C4_Witness ==
    /\ order = <<2, 0, 1, 4, 3>>
    /\ wseq = <<-1, 0, 2, 2, 4>>

\* C5 (reader validity): every value main loads is -1 or a value some commit
\* step stored, is at most maxPrefix of the offsets submitted so far, and is
\* at least the value of the load before it.
C5_ReaderValid ==
    /\ [](seen \in ({-1} \cup Range(wseq)) /\ seen <= maxPrefix(Submitted))
    /\ [][seen' >= seen]_vars

\* a stale load: the watermark has moved on since main read it
C5_Witness ==
    /\ seen >= 0
    /\ seen < committed

\* C6 (single writer): committed and commits change only in a step of the
\* aggregator's commit step, a step in which no producer and not main moves;
\* a step of a producer or of main leaves both unchanged; and the aggregator
\* receives the next offset only after the store of the previous commit step.
C6_SingleWriter ==
    /\ [][(committed' # committed \/ commits' # commits)
            => (/\ apc \in {"insert", "loop"}
                /\ ppc' = ppc /\ commitChan' = commitChan
                /\ seen' = seen /\ mpc' = mpc)]_vars
    /\ [][(ppc' # ppc \/ seen' # seen \/ mpc' # mpc)
            => (committed' = committed /\ commits' = commits)]_vars
    /\ [][Len(order') > Len(order) => Len(wseq) = Len(order)]_vars

C6_Witness ==
    /\ NumSubmitted >= 2
    /\ seen >= 0
    /\ commits # {}
    /\ committed > seen

\* C7 (pending-set invariant): in every reachable state every member of
\* commits is greater than committed.
C7_PendingAbove ==
    \A x \in commits : x > committed

C7_Witness ==
    /\ committed >= 0
    /\ Cardinality(commits) >= 2

\* C8 (pending-set bound): in every reachable state the size of commits is at
\* most the number of offsets submitted so far minus (committed + 1).
C8_PendingBound ==
    Cardinality(commits) <= NumSubmitted - (committed + 1)

C8_Witness ==
    /\ committed >= 0
    /\ commits # {}
    /\ Cardinality(commits) = NumSubmitted - (committed + 1)

\* C9 as stated: between commit steps commits is empty if and only if
\* committed = numMsgs-1 (read here for the states after at least one commit
\* step; the initial state, commits empty with committed = -1, fails it too).
C9_Original ==
    (apc = "recv" /\ Len(wseq) >= 1) => (commits = {} <=> committed = numMsgs - 1)

\* C9 (amended): between commit steps, committed = numMsgs-1 implies commits
\* is empty, and commits is empty exactly when the offsets received so far
\* are exactly 0..committed (so also at the start, and whenever the offsets
\* received form a contiguous prefix).
C9_PendingEmpty ==
    apc = "recv" =>
        /\ committed = numMsgs - 1 => commits = {}
        /\ commits = {} <=> Range(order) = 0..committed

C9_Witness ==
    /\ apc = "recv"
    /\ committed = numMsgs - 1
    /\ commits = {}
    /\ order[1] # 0

\* some offset was received when it was already at or below the watermark
DupLate ==
    \E i \in 2..Len(order) : (i - 1) <= Len(wseq) /\ order[i] \in 0..wseq[i - 1]

\* C10 (idempotent duplicate, final result): when one offset is submitted a
\* second time and received after it was absorbed, every other offset of
\* 0..numMsgs-1 being submitted once, then once all numMsgs+1 commit steps
\* are done the aggregator waits for input again with committed = numMsgs-1.
C10_DupFinal ==
    (Len(wseq) = numMsgs + 1 /\ DupLate) => (committed = numMsgs - 1 /\ apc = "recv")

C10_Witness ==
    /\ Len(wseq) = numMsgs + 1
    /\ DupLate
    /\ committed = numMsgs - 1

\* C11 (duplicate insert is a no-op): a commit step whose offset was already
\* in commits when the step began, or was already at or below committed,
\* ends with commits as it was when the step began and committed unchanged.
C11_DupNoOp ==
    [][(apc = "loop" /\ apc' = "recv" /\ (val \in pre \/ val <= committed))
          => (commits' = pre /\ committed' = committed)]_vars

\* C12 (process termination): with all numMsgs offsets submitted and every
\* goroutine scheduled fairly, main eventually loads numMsgs-1 on a tick,
\* leaves the ticker loop and the process ends.
C12_Terminates ==
    <>(mpc = "finished" /\ seen = numMsgs - 1)

C12_Witness ==
    /\ mpc = "finished"
    /\ seen = numMsgs - 1
    /\ order[1] # 0
    /\ \A p \in Producers : ppc[p] = "done"

\* the offsets of 0..numMsgs-1 that no producer holds
Missing == (0..(numMsgs - 1)) \ Range(offs)

\* x has been received and its insert has been done
Inserted(x) == x \in Range(order) /\ ~(apc = "insert" /\ val = x)

\* C13 (stalled run): when an offset m of 0..numMsgs-1 is never submitted, in
\* every reachable state committed < m, every offset above m that has been
\* inserted is still in commits, and main has not left its ticker loop.
C13_Stalled ==
    \A m \in Missing :
        /\ committed < m
        /\ \A x \in Range(order) : (x > m /\ Inserted(x)) => x \in commits
        /\ mpc # "finished"

\* offset 0 missing, every other offset received: the watermark is still -1
C13_Witness ==
    /\ 0 \in Missing
    /\ Len(wseq) = numMsgs - 1
    /\ committed = -1
    /\ commits = 1..(numMsgs - 1)
    /\ mpc = "poll"

\* every producer has sent and the aggregator has consumed everything sent
Exhausted ==
    /\ \A p \in Producers : ppc[p] = "done"
    /\ commitChan = <<>>
    /\ apc = "recv"

\* C14 (incomplete run is surfaced): when ingestion has ended with entries
\* left in commits (an offset of 0..numMsgs-1 was never received), the
\* aggregator terminates with committed < numMsgs-1 and main reaches an
\* outcome, distinct from finished, that reports the run as incomplete.
C14_Surfaced ==
    (Exhausted /\ commits # {})
        ~> (apc = "drained" /\ committed < numMsgs - 1 /\ mpc = "incomplete")

\* C15 (aggregator termination): once every submitted offset has been
\* consumed and no producer remains, the aggregator's loop terminates
\* (Running -> Drained), and from Drained on commits, committed and the
\* aggregator's position never change again.
C15_Drains ==
    /\ Exhausted ~> (apc = "drained")
    /\ [][apc = "drained" => UNCHANGED <<apc, commits, committed>>]_vars

\* the out-of-range offset of a run started from InitOut
OutOffset == offs[numMsgs]

\* C16 as stated: an out-of-range offset, once inserted, stays in commits,
\* committed never reaches an offset >= numMsgs, and main never leaves its
\* ticker loop.
C16_Original ==
    Inserted(OutOffset) =>
        /\ OutOffset \in commits
        /\ OutOffset >= numMsgs => committed < OutOffset
        /\ mpc # "finished"

\* C16 (amended): a negative offset, once inserted, stays in commits for
\* good; an offset >= numMsgs, once inserted, stays in commits with committed
\* below it until it is deleted, which happens only when every offset below
\* it has been received (numMsgs is absorbed once 0..numMsgs-1 are all in);
\* and main leaves its ticker loop exactly on a load >= numMsgs-1, whether or
\* not the out-of-range offset is pending.
C16_OutOfRange ==
    /\ (OutOffset < 0 /\ Inserted(OutOffset)) => OutOffset \in commits
    /\ (OutOffset >= numMsgs /\ Inserted(OutOffset)) =>
          /\ OutOffset \in commits \/ OutOffset \in Range(removed)
          /\ OutOffset \in commits => committed < OutOffset
          /\ OutOffset \in Range(removed) =>
                \A v \in 0..(OutOffset - 1) : v \in Range(order)
    /\ mpc = "finished" <=> seen >= numMsgs - 1

\* the offset numMsgs has been absorbed and main has finished on reading it
C16_Witness ==
    /\ OutOffset = numMsgs
    /\ committed = numMsgs
    /\ OutOffset \notin commits
    /\ mpc = "finished"
    /\ seen = numMsgs

\* C17 (producers never block): the channel never holds more than numMsgs
\* offsets, and whenever a producer is at its send the send is enabled,
\* however far the aggregator has got.
C17_NeverBlock ==
    /\ Len(commitChan) <= numMsgs
    /\ \A p \in Producers : (Running /\ ppc[p] = "send") => ENABLED Send(p)

\* the aggregator has not run, the buffer holds all but one offset, and the
\* last producer is at its send
C17_Witness ==
    /\ order = <<>>
    /\ Len(commitChan) = numMsgs - 1
    /\ \E p \in Producers : ppc[p] = "send"

\* the offsets in the channel followed by the offsets already received
InFlightAndReceived == commitChan \o order

\* C18 (offset source): there are numMsgs producers, they hold exactly the
\* offsets 0..numMsgs-1, one each; what is in the channel or already received
\* is exactly what the finished producers sent, each offset at most once; and
\* under fair scheduling every producer eventually completes its send.
C18_OffsetSource ==
    /\ [](/\ Cardinality(Producers) = numMsgs
          /\ Range(offs) = 0..(numMsgs - 1)
          /\ Len(InFlightAndReceived) = NumSubmitted
          /\ Range(InFlightAndReceived) = Submitted
          /\ Cardinality(Range(InFlightAndReceived)) = Len(InFlightAndReceived))
    /\ <>(\A p \in Producers : ppc[p] = "done")

C18_Witness ==
    /\ \A p \in Producers : ppc[p] = "done"
    /\ Len(commitChan) >= 2
    /\ Len(order) >= 2

\* the watermark the aggregator is working with: c inside the scan of a
\* commit step, committed outside it
Working == IF apc = "loop" THEN c ELSE committed

\* C19 as stated: every insert adds an offset that was never in commits, no
\* offset is deleted twice, and in every state the number of deletions done
\* so far equals committed + 1 and is at most numMsgs.
C19_Original ==
    /\ Cardinality(Range(order)) = Len(order)
    /\ apc = "insert" => (val \notin commits /\ val \notin Range(removed))
    /\ Cardinality(Range(removed)) = Len(removed)
    /\ Len(removed) = committed + 1
    /\ Len(removed) <= numMsgs

\* C19 (insert once, remove at most once; amended): with 0..numMsgs-1 each submitted
\* once, every insert adds an offset that was never in commits before, no
\* offset is deleted twice, the offsets deleted so far are exactly
\* 0..Working (the step that deletes an offset is the step that takes the
\* watermark to or past it), so the number of deletions is Working + 1, which
\* is committed + 1 between commit steps, and at most numMsgs.
C19_InsertRemoveOnce ==
    /\ Cardinality(Range(order)) = Len(order)
    /\ apc = "insert" => (val \notin commits /\ val \notin Range(removed))
    /\ Cardinality(Range(removed)) = Len(removed)
    /\ Range(removed) = 0..Working
    /\ Len(removed) = Working + 1
    /\ apc = "recv" => Len(removed) = committed + 1
    /\ Len(removed) <= numMsgs

C19_Witness ==
    /\ Len(removed) = numMsgs
    /\ order[1] = numMsgs - 1
    /\ apc = "recv"

\* C20 (conservation): with each offset submitted at most once, between
\* commit steps the offsets received are the disjoint union of commits and
\* 0..committed, counted once each, and committed + 1 is not in commits.
C20_Conservation ==
    apc = "recv" =>
        /\ Range(order) = commits \cup (0..committed)
        /\ commits \cap (0..committed) = {}
        /\ Cardinality(commits) + committed + 1 = Len(order)
        /\ (committed + 1) \notin commits

C20_Witness ==
    /\ apc = "recv"
    /\ committed >= 1
    /\ Cardinality(commits) >= 2

====
